---- MODULE Spec2Model ----
(***************************************************************************)
(* Model of the target-triple parser, canonical serializer and crosstool   *)
(* directive emitter of `chained` (src/src/triple.rs), and of the caller   *)
(* side of directive emission (src/src/main.rs).                           *)
(*                                                                         *)
(* A Rust string is a sequence of one-character strings, so that lexing,   *)
(* formatting and parsing are computed character by character.  A panic    *)
(* (todo!, unwrap on Err, panic!) is the outcome Panic, distinct from the  *)
(* error value Err that a Result carries back to the caller.               *)
(***************************************************************************)
EXTENDS Integers, Sequences, FiniteSets

VARIABLES
    pc,      \* position of the run: idle, start, parsed, built, shown, reparsed, emitted, configured
    s,       \* the string handed to Triple::from_str
    res,     \* outcome of Triple::from_str(s)
    t,       \* the Triple in hand (parsed or constructed), or NoTriple
    shown,   \* outcome of t.to_string()
    res2,    \* outcome of Triple::from_str on the displayed string
    opts,    \* the Vec<String> filled by Triple::emit_crosstool_config
    text,    \* the String built by Toolchain::crosstool_config
    toolchain, \* Config::toolchain as persisted in chained.toml
    pushed,  \* the Toolchain the last `toolchain <target> add` pushed, or NoEntry
    found    \* what find_toolchain returned to that Add, or NoEntry

\* The registry of toolchains and the last Add's view of it.
reg == <<toolchain, pushed, found>>

vars == <<pc, s, res, t, shown, res2, opts, text, toolchain, pushed, found>>

(***************************************************************************)
(* Bounds of the model.                                                    *)
(***************************************************************************)
\* Inputs hold between 0 and MaxTokens dash-separated tokens.
MaxTokens == 5
\* The registry is followed up to MaxToolchains entries.
MaxToolchains == 3

(***************************************************************************)
(* Characters.                                                             *)
(***************************************************************************)
Lower == {"a","b","c","d","e","f","g","h","i","j","k","l","m",
          "n","o","p","q","r","s","t","u","v","w","x","y","z"}
Upper == {"A","B","C","D","E","F","G","H","I","J","K","L","M",
          "N","O","P","Q","R","S","T","U","V","W","X","Y","Z"}
Digit == {"0","1","2","3","4","5","6","7","8","9"}

\* AsChar::is_alpha / is_alphanum for char: ASCII letters, ASCII letters and digits.
is_alpha(c) == c \in Lower \cup Upper
is_alphanum(c) == is_alpha(c) \/ c \in Digit

\* The predicates of ident: its first character, its following characters.
ident_first(c) == is_alpha(c) \/ c = "_"
ident_rest(c) == is_alphanum(c) \/ c = "_"

(***************************************************************************)
(* Outcomes.                                                               *)
(***************************************************************************)
NoTriple == [none |-> TRUE]
NoRes == [tag |-> "None"]
NoEntry == [none |-> TRUE]
Err == [tag |-> "Err"]
Panic == [tag |-> "Panic"]
Ok(v) == [tag |-> "Ok", val |-> v]

(***************************************************************************)
(* The data model: Endian, X86Variant, Arch, LinuxLibc, NoneAbi, Os,       *)
(* Triple.                                                                 *)
(***************************************************************************)
Endian == {"Little", "Big"}
X86Variant == {"I386", "I586", "I686", "X86_64", "X86_64h"}
Arch == {<<"Arm64", e>> : e \in Endian} \cup {<<"M68k">>}
        \cup {<<"Mips32", e>> : e \in Endian} \cup {<<"Mips64", e>> : e \in Endian}
        \cup {<<"Sh3", e>> : e \in Endian} \cup {<<"X86", v>> : v \in X86Variant}
LinuxLibc == {"Gnu", "Musl", "Uclibc"}
NoneAbi == {"Elf"}
Os == {<<"Linux", l>> : l \in LinuxLibc} \cup {<<"None", a>> : a \in NoneAbi}
Triple(arch, vendor, os) == [arch |-> arch, vendor |-> vendor, os |-> os]

(***************************************************************************)
(* The identifier lexer and the triple grammar.                            *)
(***************************************************************************)
\* take_while(0.., p): the length of the longest prefix of input within p.
RECURSIVE take_while(_)
take_while(input) ==
    IF input # <<>> /\ ident_rest(Head(input))
    THEN 1 + take_while(Tail(input))
    ELSE 0

\* ident: a letter or '_', then letters, digits and '_'; fails consuming nothing.
ident(input) ==
    IF input = <<>> \/ ~ident_first(Head(input))
    THEN [ok |-> FALSE, tok |-> <<>>, rest |-> input]
    ELSE LET n == 1 + take_while(Tail(input))
         IN  [ok |-> TRUE, tok |-> SubSeq(input, 1, n),
              rest |-> SubSeq(input, n + 1, Len(input))]

\* The loop of separated(1.., ident, '-') after its first element: a '-' that no
\* ident follows is left unconsumed.
RECURSIVE separated_more(_, _)
separated_more(acc, input) ==
    IF input # <<>> /\ Head(input) = "-"
    THEN LET r == ident(Tail(input))
         IN  IF r.ok THEN separated_more(Append(acc, r.tok), r.rest)
                     ELSE [ok |-> TRUE, toks |-> acc, rest |-> input]
    ELSE [ok |-> TRUE, toks |-> acc, rest |-> input]

\* separated(1.., ident, '-'): at least one ident.
separated(input) ==
    LET r == ident(input)
    IN  IF r.ok THEN separated_more(<<r.tok>>, r.rest)
                ELSE [ok |-> FALSE, toks |-> <<>>, rest |-> input]

\* Arch::parse1: dispatch on the ident read from the token.
parse1(tok) ==
    LET r == ident(tok)
    IN  IF ~r.ok THEN Err
        ELSE CASE r.tok = <<"m","6","8","k">> -> Ok(<<"M68k">>)
               [] r.tok = <<"a","a","r","c","h","6","4">> -> Ok(<<"Arm64", "Little">>)
               [] r.tok = <<"a","r","m","6","4">> -> Ok(<<"Arm64", "Little">>)
               [] r.tok = <<"a","a","r","c","h","6","4","_","b","e">> -> Ok(<<"Arm64", "Big">>)
               [] r.tok = <<"m","i","p","s","e","l">> -> Ok(<<"Mips32", "Little">>)
               [] r.tok = <<"m","i","p","s">> -> Ok(<<"Mips32", "Big">>)
               [] r.tok = <<"m","i","p","s","6","4">> -> Ok(<<"Mips64", "Big">>)
               [] r.tok = <<"m","i","p","s","6","4","e","l">> -> Ok(<<"Mips64", "Little">>)
               [] r.tok = <<"i","3","8","6">> -> Ok(<<"X86", "I386">>)
               [] r.tok = <<"i","5","8","6">> -> Ok(<<"X86", "I586">>)
               [] r.tok = <<"i","6","8","6">> -> Ok(<<"X86", "I686">>)
               [] r.tok = <<"x","8","6","_","6","4">> -> Ok(<<"X86", "X86_64">>)
               [] r.tok = <<"x","8","6","_","6","4","h">> -> Ok(<<"X86", "X86_64h">>)
               [] r.tok = <<"s","h","3">> -> Ok(<<"Sh3", "Little">>)
               [] OTHER -> Err

\* <LinuxLibc as FromStr>::from_str (strum EnumString, lowercase, exact match).
LinuxLibc_from_str(abiname) ==
    CASE abiname = <<"g","n","u">> -> Ok("Gnu")
      [] abiname = <<"m","u","s","l">> -> Ok("Musl")
      [] abiname = <<"u","c","l","i","b","c">> -> Ok("Uclibc")
      [] OTHER -> Err

\* <NoneAbi as FromStr>::from_str (strum EnumString, lowercase, exact match).
NoneAbi_from_str(abiname) ==
    CASE abiname = <<"e","l","f">> -> Ok("Elf")
      [] OTHER -> Err

\* Os::parse_osabi: unwrap() of a failed abi parse and the catch-all arm panic.
parse_osabi(os, abiname) ==
    CASE os = <<"l","i","n","u","x">> ->
            LET libc == LinuxLibc_from_str(abiname)
            IN  IF libc.tag = "Ok" THEN Ok(<<"Linux", libc.val>>) ELSE Panic
      [] os \in {<<"n","o","n","e">>, <<"u","n","k","n","o","w","n">>} ->
            LET abi == NoneAbi_from_str(abiname)
            IN  IF abi.tag = "Ok" THEN Ok(<<"None", abi.val>>) ELSE Panic
      [] OTHER -> Panic

\* A default vendor spelled like the bare-metal kernel.
DefaultVendor_None == <<"n","o","n","e">>

\* The vendor of the 3-token shape.
DefaultVendor == <<"u","n","k","n","o","w","n">>

\* One arm of the match in Triple::parse: the arch is resolved first and its error
\* returned by `?`, then the os/abi pair.
parse_fields(arch, vendor, os, abi) ==
    LET a == parse1(arch)
    IN  IF a.tag # "Ok" THEN a
        ELSE LET o == parse_osabi(os, abi)
             IN  IF o.tag # "Ok" THEN o
                 ELSE Ok(Triple(a.val, vendor, o.val))

\* A parse whose 4-token arm ignores its vendor token.
Triple_parse_DropVendor(input) ==
    LET v == separated(input)
    IN  IF ~v.ok THEN [out |-> Err, rest |-> input]
        ELSE [rest |-> v.rest,
              out |-> CASE Len(v.toks) = 3 ->
                             parse_fields(v.toks[1], DefaultVendor, v.toks[2], v.toks[3])
                        [] Len(v.toks) = 4 ->
                             parse_fields(v.toks[1], DefaultVendor, v.toks[3], v.toks[4])
                        [] OTHER -> Panic]

\* Triple::parse: the outcome, and the input left unconsumed.
Triple_parse(input) ==
    LET v == separated(input)
    IN  IF ~v.ok THEN [out |-> Err, rest |-> input]
        ELSE [rest |-> v.rest,
              out |-> CASE Len(v.toks) = 3 ->
                             parse_fields(v.toks[1], DefaultVendor, v.toks[2], v.toks[3])
                        [] Len(v.toks) = 4 ->
                             parse_fields(v.toks[1], v.toks[2], v.toks[3], v.toks[4])
                        [] OTHER -> Panic]

\* <Triple as FromStr>::from_str: Parser::parse runs Triple::parse and then
\* requires the end of the input.
from_str(input) ==
    LET r == Triple_parse(input)
    IN  IF r.out.tag = "Ok" /\ r.rest # <<>> THEN Err ELSE r.out

(***************************************************************************)
(* The canonical serializer.                                               *)
(***************************************************************************)
\* The match of <Arch as Display>::fmt: Sh3(Big) is todo!().
Arch_name(arch) ==
    CASE arch = <<"Arm64", "Little">> -> Ok(<<"a","a","r","c","h","6","4">>)
      [] arch = <<"Arm64", "Big">> -> Ok(<<"a","a","r","c","h","6","4","_","b","e">>)
      [] arch = <<"M68k">> -> Ok(<<"m","6","8","k">>)
      [] arch = <<"Mips32", "Little">> -> Ok(<<"m","i","p","s","e","l">>)
      [] arch = <<"Mips32", "Big">> -> Ok(<<"m","i","p","s">>)
      [] arch = <<"Mips64", "Little">> -> Ok(<<"m","i","p","s","6","4","e","l">>)
      [] arch = <<"Mips64", "Big">> -> Ok(<<"m","i","p","s","6","4">>)
      [] arch = <<"Sh3", "Little">> -> Ok(<<"s","h","3">>)
      [] arch = <<"Sh3", "Big">> -> Panic
      [] arch = <<"X86", "I386">> -> Ok(<<"i","3","8","6">>)
      [] arch = <<"X86", "I586">> -> Ok(<<"i","5","8","6">>)
      [] arch = <<"X86", "I686">> -> Ok(<<"i","6","8","6">>)
      [] arch = <<"X86", "X86_64">> -> Ok(<<"x","8","6","_","6","4">>)
      [] arch = <<"X86", "X86_64h">> -> Ok(<<"x","8","6","_","6","4","h">>)

\* A Display that echoes the alias arm64 for Arm64(Little).
Arch_fmt_Alias(arch) ==
    IF arch = <<"Arm64", "Little">> THEN Ok(<<"a","r","m","6","4">>) ELSE Arch_name(arch)

\* <Arch as Display>::fmt: f.write_str(s) of the spelling matched.
Arch_fmt(arch) == Arch_name(arch)

\* <LinuxLibc as Display>::fmt (strum Display, lowercase).
LinuxLibc_fmt(libc) ==
    CASE libc = "Gnu" -> <<"g","n","u">>
      [] libc = "Musl" -> <<"m","u","s","l">>
      [] libc = "Uclibc" -> <<"u","c","l","i","b","c">>

\* <NoneAbi as Display>::fmt (strum Display, lowercase).
NoneAbi_fmt(abi) ==
    CASE abi = "Elf" -> <<"e","l","f">>

\* A Display that leaves the kernel of a bare-metal Os out.
Os_fmt_AbiOnly(os) ==
    CASE os[1] = "Linux" -> <<"l","i","n","u","x","-">> \o LinuxLibc_fmt(os[2])
      [] os[1] = "None" -> NoneAbi_fmt(os[2])

\* <Os as Display>::fmt: "linux-{0}", "none-{0}".
Os_fmt(os) ==
    CASE os[1] = "Linux" -> <<"l","i","n","u","x","-">> \o LinuxLibc_fmt(os[2])
      [] os[1] = "None" -> <<"n","o","n","e","-">> \o NoneAbi_fmt(os[2])

\* <Triple as Display>::fmt, as to_string(): "{}-{}-{}" of arch, vendor, os.
Triple_fmt(tr) ==
    LET a == Arch_fmt(tr.arch)
    IN  IF a.tag # "Ok" THEN Panic
        ELSE Ok(a.val \o <<"-">> \o tr.vendor \o <<"-">> \o Os_fmt(tr.os))

(***************************************************************************)
(* The configuration directive emitter.                                    *)
(***************************************************************************)
\* Arch::endian_cfg
endian_cfg(arch) ==
    IF arch[1] \in {"Arm64", "Mips32", "Mips64", "Sh3"}
    THEN (IF arch[2] = "Little" THEN <<"C","T","_","A","R","C","H","_","L","E","=","y">> ELSE <<"C","T","_","A","R","C","H","_","B","E","=","y">>)
    ELSE <<"C","T","_","A","R","C","H","_","L","E","=","y">>

\* A bit-width that forgets the X86_64h variant.
bitness_cfg_NoHaswell(arch) ==
    IF arch[1] \in {"Arm64", "Mips64"} \/ arch = <<"X86", "X86_64">>
    THEN <<"C","T","_","A","R","C","H","_","6","4","=","y">>
    ELSE <<"C","T","_","A","R","C","H","_","3","2","=","y">>

\* Arch::bitness_cfg
bitness_cfg(arch) ==
    IF arch[1] \in {"Arm64", "Mips64"} \/ arch = <<"X86", "X86_64">>
       \/ arch = <<"X86", "X86_64h">>
    THEN <<"C","T","_","A","R","C","H","_","6","4","=","y">>
    ELSE <<"C","T","_","A","R","C","H","_","3","2","=","y">>

\* The architecture family directive of Arch::emit_crosstool_config.
arch_cfg(arch) ==
    CASE arch[1] = "Arm64" -> <<"C","T","_","A","R","C","H","_","A","R","M","=","y">>
      [] arch[1] \in {"Mips32", "Mips64"} -> <<"C","T","_","A","R","C","H","_","M","I","P","S","=","y">>
      [] arch[1] = "Sh3" -> <<"C","T","_","A","R","C","H","_","S","H","=","y">>
      [] arch[1] = "M68k" -> <<"C","T","_","A","R","C","H","_","M","6","8","K","=","y">>
      [] arch[1] = "X86" -> <<"C","T","_","A","R","C","H","_","X","8","6","=","y">>

\* Arch::emit_crosstool_config: three pushes onto the caller's vector.
Arch_emit_crosstool_config(arch, o) ==
    o \o <<arch_cfg(arch)>> \o <<endian_cfg(arch)>> \o <<bitness_cfg(arch)>>

\* An emission that gives the uClibc directive the enable marker of the others.
Os_emit_UclibcEnabled(os, o) ==
    CASE os[1] = "Linux" ->
            (o \o <<<<"C","T","_","K","E","R","N","E","L","_","L","I","N","U","X","=","y">>>>)
            \o (CASE os[2] = "Gnu" -> <<<<"C","T","_","L","I","B","C","_","G","L","I","B","C","=","y">>>>
                  [] os[2] = "Musl" -> <<<<"C","T","_","L","I","B","C","_","M","U","S","L","=","y">>>>
                  [] os[2] = "Uclibc" -> <<<<"C","T","_","L","I","B","C","_","U","C","L","I","B","C","_","N","G","=","y">>>>)
      [] os[1] = "None" ->
            (o \o <<<<"C","T","_","K","E","R","N","E","L","_","B","A","R","E","_","M","E","T","A","L","=","y">>>>)
            \o (CASE os[2] = "Elf" -> <<>>)

\* Os::emit_crosstool_config
Os_emit_crosstool_config(os, o) ==
    CASE os[1] = "Linux" ->
            (o \o <<<<"C","T","_","K","E","R","N","E","L","_","L","I","N","U","X","=","y">>>>)
            \o (CASE os[2] = "Gnu" -> <<<<"C","T","_","L","I","B","C","_","G","L","I","B","C","=","y">>>>
                  [] os[2] = "Musl" -> <<<<"C","T","_","L","I","B","C","_","M","U","S","L","=","y">>>>
                  [] os[2] = "Uclibc" -> <<<<"C","T","_","L","I","B","C","_","U","C","L","I","B","C","_","N","G">>>>)
      [] os[1] = "None" ->
            (o \o <<<<"C","T","_","K","E","R","N","E","L","_","B","A","R","E","_","M","E","T","A","L","=","y">>>>)
            \o (CASE os[2] = "Elf" -> <<>>)

\* The vendor directive: format!("CT_TARGET_VENDOR={}", self.vendor).
vendor_cfg(vendor) == <<"C","T","_","T","A","R","G","E","T","_","V","E","N","D","O","R","=">> \o vendor

\* An emission that pushes the vendor directive before the architecture's.
Triple_emit_VendorFirst(tr, o) ==
    Os_emit_crosstool_config(tr.os,
        Arch_emit_crosstool_config(tr.arch, o \o <<vendor_cfg(tr.vendor)>>))

\* Triple::emit_crosstool_config: arch, then vendor, then os.
Triple_emit_crosstool_config(tr, o) ==
    Os_emit_crosstool_config(tr.os,
        Arch_emit_crosstool_config(tr.arch, o) \o <<vendor_cfg(tr.vendor)>>)

Quote == <<"\"">>
Newline == <<"\n">>

\* opts.into_iter().map(|v| v + "\n").collect()
RECURSIVE collect_lines(_)
collect_lines(o) ==
    IF o = <<>> THEN <<>>
    ELSE Head(o) \o Newline \o collect_lines(Tail(o))

\* The directives Toolchain::crosstool_config pushes after the triple's own.
caller_opts(cache_dir, prefix, gcc_src) ==
    << <<"C","T","_","L","O","C","A","L","_","T","A","R","B","A","L","L","S","_","D","I","R","=">> \o Quote \o cache_dir \o Quote,
       <<"C","T","_","P","R","E","F","I","X","_","D","I","R","=">> \o Quote \o prefix \o Quote,
       <<"C","T","_","G","C","C","_","S","R","C","_","D","E","V","E","L","=","y">>,
       <<"C","T","_","G","C","C","_","D","E","V","E","L","_","U","R","L","=">> \o Quote \o gcc_src \o Quote,
       <<"C","T","_","C","C","_","L","A","N","G","_","J","I","T","=","y">>,
       <<"C","T","_","E","X","P","E","R","I","M","E","N","T","A","L","=","y">>,
       <<"C","T","_","C","C","_","G","C","C","_","E","X","T","R","A","_","C","O","N","F","I","G","_","A","R","R","A","Y","=">> \o Quote
           \o <<"-","-","e","n","a","b","l","e","-","h","o","s","t","-","s","h","a","r","e","d"," ","-","-","d","i","s","a","b","l","e","-","b","o","o","t","s","t","r","a","p">> \o Quote >>

\* Toolchain::crosstool_config
crosstool_config(tr, cache_dir, prefix, gcc_src) ==
    collect_lines(Triple_emit_crosstool_config(tr, <<>>)
                  \o caller_opts(cache_dir, prefix, gcc_src))

(***************************************************************************)
(* The inputs of the model.                                                *)
(***************************************************************************)
\* The identifiers of the dispatch table of Arch::parse1.
ArchNames ==
    {<<"m","6","8","k">>, <<"a","a","r","c","h","6","4">>, <<"a","r","m","6","4">>, <<"a","a","r","c","h","6","4","_","b","e">>, <<"m","i","p","s","e","l">>, <<"m","i","p","s">>, <<"m","i","p","s","6","4">>,
     <<"m","i","p","s","6","4","e","l">>, <<"i","3","8","6">>, <<"i","5","8","6">>, <<"i","6","8","6">>, <<"x","8","6","_","6","4">>, <<"x","8","6","_","6","4","h">>, <<"s","h","3">>}
\* First tokens outside the table: another architecture, another case, a proper
\* prefix and an extension of an entry.
OtherArchWords == {<<"r","i","s","c","v">>, <<"A","A","R","C","H","6","4">>, <<"m","i","p">>, <<"s","h","3","e","b">>}
ArchWords == ArchNames \cup OtherArchWords
VendorWords == {<<"u","n","k","n","o","w","n">>, <<"p","c">>, <<"l","i","n","u","x">>, <<"n","o","n","e">>, <<"_","v","1">>}
KernelWords == {<<"l","i","n","u","x">>, <<"n","o","n","e">>, <<"u","n","k","n","o","w","n">>, <<"a","p","p","l","e">>, <<"L","i","n","u","x">>}
AbiWords == {<<"g","n","u">>, <<"m","u","s","l">>, <<"u","c","l","i","b","c">>, <<"e","l","f">>, <<"b","i","o","n","i","c">>, <<"d","a","r","w","i","n">>, <<"G","N","U">>}

\* The tokens joined by '-'.
RECURSIVE Join(_)
Join(toks) ==
    IF Len(toks) = 1 THEN toks[1]
    ELSE toks[1] \o <<"-">> \o Join(Tail(toks))

\* toks followed by n more tokens.
RECURSIVE Pad(_, _)
Pad(toks, n) == IF n = 0 THEN toks ELSE Pad(Append(toks, <<"e","a","b","i">>), n - 1)

\* The token sequences of n tokens the model feeds to the parser.
Shaped(n) ==
    CASE n = 1 -> {<<a>> : a \in ArchWords}
      [] n = 2 -> {<<a, b>> : a \in ArchWords, b \in AbiWords} \cup {<<<<"o","n","l","y">>, <<"t","w","o">>>>}
      [] n = 3 -> {<<a, k, b>> : a \in ArchWords, k \in KernelWords, b \in AbiWords}
      [] n = 4 -> {<<a, v, k, b>> : a \in ArchWords, v \in VendorWords,
                                    k \in KernelWords, b \in AbiWords}
      [] OTHER -> {Pad(<<a, <<"u","n","k","n","o","w","n">>, k, b>>, n - 4) :
                      a \in ArchWords, k \in KernelWords, b \in AbiWords}

\* What follows or precedes a well-formed token sequence in a malformed input.
JunkSuffix == {<<"-">>, <<"!">>, <<"-","9">>, <<"-","-","e","l","f">>, <<".","x">>, <<" ">>}
JunkPrefix == {<<"9">>, <<"-">>}
JunkBase ==
    Shaped(1) \cup Shaped(2) \cup Shaped(3)
    \cup {<<a, <<"u","n","k","n","o","w","n">>, k, b>> : a \in ArchWords, k \in KernelWords, b \in AbiWords}

Inputs ==
    {<<>>}
    \cup {Join(ts) : ts \in UNION {Shaped(n) : n \in 1..MaxTokens}}
    \cup {Join(ts) \o j : ts \in JunkBase, j \in JunkSuffix}
    \cup {p \o Join(ts) : p \in JunkPrefix, ts \in JunkBase}

\* Every Triple constructible from the enumerated variants.
Triples == {Triple(a, v, o) : a \in Arch, v \in VendorWords, o \in Os}

CacheDirs == {<<"/","h","o","m","e","/","u","/",".","c","a","c","h","e","/","c","h","a","i","n","e","d">>}
PrefixDirs == {<<"/","d","/","p","r","e","f","i","x">>, <<"/","d","a","t","a","/","x","/","p","r","e","f","i","x">>}
GccSrcs == {<<"h","t","t","p","s",":","/","/","g","i","t","h","u","b",".","c","o","m","/","r","u","s","t","-","l","a","n","g","/","g","c","c",".","g","i","t">>, <<"f","i","l","e",":","/","/","/","g","c","c">>}

(***************************************************************************)
(* The state machine.                                                      *)
(***************************************************************************)
Init ==
    /\ pc = "idle"
    /\ s = <<>>
    /\ res = NoRes
    /\ t = NoTriple
    /\ shown = NoRes
    /\ res2 = NoRes
    /\ opts = <<>>
    /\ text = <<>>
    /\ toolchain = <<>>
    /\ pushed = NoEntry
    /\ found = NoEntry

\* The command line hands a raw target string to the parser.
Arg(x) ==
    /\ pc = "idle"
    /\ s' = x
    /\ pc' = "start"
    /\ UNCHANGED <<res, t, shown, res2, opts, text>>
    /\ UNCHANGED reg

\* Triple::from_str(s)
FromStr ==
    /\ pc = "start"
    /\ res' = from_str(s)
    /\ t' = IF res'.tag = "Ok" THEN res'.val ELSE NoTriple
    /\ pc' = "parsed"
    /\ UNCHANGED <<s, shown, res2, opts, text>>
    /\ UNCHANGED reg

\* Triple::new4: a Triple built from its components.
New4(arch, vendor, os) ==
    /\ pc = "idle"
    /\ t' = Triple(arch, vendor, os)
    /\ pc' = "built"
    /\ UNCHANGED <<s, res, shown, res2, opts, text>>
    /\ UNCHANGED reg

HasTriple == pc \in {"parsed", "built"} /\ t # NoTriple

\* t.to_string()
ToString ==
    /\ HasTriple
    /\ shown' = Triple_fmt(t)
    /\ pc' = "shown"
    /\ UNCHANGED <<s, res, t, res2, opts, text>>
    /\ UNCHANGED reg

\* Triple::from_str on the displayed string.
Reparse ==
    /\ pc = "shown"
    /\ shown.tag = "Ok"
    /\ res2' = from_str(shown.val)
    /\ pc' = "reparsed"
    /\ UNCHANGED <<s, res, t, shown, opts, text>>
    /\ UNCHANGED reg

\* t.emit_crosstool_config(&mut opts) on an empty vector.
Emit ==
    /\ HasTriple
    /\ opts' = Triple_emit_crosstool_config(t, <<>>)
    /\ pc' = "emitted"
    /\ UNCHANGED <<s, res, t, shown, res2, text>>
    /\ UNCHANGED reg

\* Toolchain::crosstool_config of a toolchain of triple t.
CrosstoolConfig(cache_dir, prefix, gcc_src) ==
    /\ HasTriple
    /\ text' = crosstool_config(t, cache_dir, prefix, gcc_src)
    /\ pc' = "configured"
    /\ UNCHANGED <<s, res, t, shown, res2, opts>>
    /\ UNCHANGED reg

Next ==
    \/ \E x \in Inputs : Arg(x)
    \/ FromStr
    \/ \E arch \in Arch, vendor \in VendorWords, os \in Os : New4(arch, vendor, os)
    \/ ToString
    \/ Reparse
    \/ Emit
    \/ \E c \in CacheDirs, p \in PrefixDirs, g \in GccSrcs : CrosstoolConfig(c, p, g)

Spec == Init /\ [][Next]_vars

(***************************************************************************)
(* The toolchain registry: `chained toolchain <target> add`.               *)
(***************************************************************************)
\* The directories Setup stores in the Config.
ConfigCacheDir == <<"/","h","o","m","e","/","u","/",".","c","a","c","h","e","/","c","h","a","i","n","e","d">>
ConfigDataDir == <<"/","h","o","m","e","/","u","/",".","l","o","c","a","l","/","s","h","a","r","e","/","c","h","a","i","n","e","d">>

\* PathBuf::join of a relative component.
path_join(base, component) == base \o <<"/">> \o component

\* Config::find_toolchain: the first entry of the list whose triple is name.
find_toolchain(list, name) ==
    IF \E i \in 1..Len(list) : list[i].triple = name
    THEN list[CHOOSE i \in 1..Len(list) :
                  /\ list[i].triple = name
                  /\ \A j \in 1..(i - 1) : list[j].triple # name]
    ELSE NoEntry

\* The Toolchain that Add builds for target, whose canonical string is tgt_dir.
new_toolchain(target, tgt_dir, gcc_src) ==
    LET basedir == path_join(ConfigDataDir, tgt_dir)
    IN  [triple |-> target,
         basedir |-> basedir,
         gcc_src |-> gcc_src,
         json_spec |-> path_join(basedir, <<"t","a","r","g","e","t",".","j","s","o","n">>),
         prefix |-> path_join(basedir, <<"p","r","e","f","i","x">>)]

\* The target strings given to `toolchain <target> add`.
RegistryTargets == {<<"a","r","m","6","4","-","l","i","n","u","x","-","g","n","u">>, <<"a","a","r","c","h","6","4","-","l","i","n","u","x","-","g","n","u">>, <<"m","6","8","k","-","u","n","k","n","o","w","n","-","e","l","f">>}

\* `chained toolchain x add --gcc-src gcc_src`: the target is parsed, the config
\* loaded, the new Toolchain pushed and the config saved; the toolchain then
\* looked up by its triple is the one whose defconfig is written and built.
AddCmd(x, gcc_src) ==
    /\ pc = "idle"
    /\ Len(toolchain) < MaxToolchains
    /\ from_str(x).tag = "Ok"
    /\ Triple_fmt(from_str(x).val).tag = "Ok"
    /\ LET target == from_str(x).val
           new == new_toolchain(target, Triple_fmt(target).val, gcc_src)
           list == Append(toolchain, new)
           got == find_toolchain(list, target)
       IN  /\ s' = x
           /\ res' = from_str(x)
           /\ t' = target
           /\ toolchain' = list
           /\ pushed' = new
           /\ found' = got
           /\ text' = crosstool_config(got.triple, ConfigCacheDir, got.prefix,
                                       got.gcc_src)
    /\ UNCHANGED <<pc, shown, res2, opts>>

NextRegistry == \E x \in RegistryTargets, g \in GccSrcs : AddCmd(x, g)

SpecRegistry == Init /\ [][NextRegistry]_vars

(***************************************************************************)
(* The vocabulary of the properties, stated from the grammar and the       *)
(* tables of the specification and not from the parser above.              *)
(***************************************************************************)
\* The pieces of str between its dashes (an empty piece where two dashes meet).
RECURSIVE Split(_)
Split(str) ==
    IF \A i \in 1..Len(str) : str[i] # "-" THEN <<str>>
    ELSE LET i == CHOOSE j \in 1..Len(str) :
                      str[j] = "-" /\ \A k \in 1..(j - 1) : str[k] # "-"
         IN  <<SubSeq(str, 1, i - 1)>> \o Split(SubSeq(str, i + 1, Len(str)))

\* An identifier token: a letter or '_', then letters, digits and '_'.
IsIdent(tok) ==
    /\ tok # <<>>
    /\ tok[1] \in Lower \cup Upper \cup {"_"}
    /\ \A i \in 1..Len(tok) : tok[i] \in Lower \cup Upper \cup Digit \cup {"_"}

\* The whole of str is identifier tokens separated by '-'.
WellFormed(str) == \A i \in 1..Len(Split(str)) : IsIdent(Split(str)[i])

\* The architecture dispatch table.
TableArch(tok) ==
    CASE tok = <<"m","6","8","k">> -> <<"M68k">>
      [] tok \in {<<"a","a","r","c","h","6","4">>, <<"a","r","m","6","4">>} -> <<"Arm64", "Little">>
      [] tok = <<"a","a","r","c","h","6","4","_","b","e">> -> <<"Arm64", "Big">>
      [] tok = <<"m","i","p","s","e","l">> -> <<"Mips32", "Little">>
      [] tok = <<"m","i","p","s">> -> <<"Mips32", "Big">>
      [] tok = <<"m","i","p","s","6","4">> -> <<"Mips64", "Big">>
      [] tok = <<"m","i","p","s","6","4","e","l">> -> <<"Mips64", "Little">>
      [] tok = <<"i","3","8","6">> -> <<"X86", "I386">>
      [] tok = <<"i","5","8","6">> -> <<"X86", "I586">>
      [] tok = <<"i","6","8","6">> -> <<"X86", "I686">>
      [] tok = <<"x","8","6","_","6","4">> -> <<"X86", "X86_64">>
      [] tok = <<"x","8","6","_","6","4","h">> -> <<"X86", "X86_64h">>
      [] tok = <<"s","h","3">> -> <<"Sh3", "Little">>

\* The kernel/abi pairs of the OS/ABI resolver.
ValidOsAbi(k, b) ==
    \/ k = <<"l","i","n","u","x">> /\ b \in {<<"g","n","u">>, <<"m","u","s","l">>, <<"u","c","l","i","b","c">>}
    \/ k \in {<<"n","o","n","e">>, <<"u","n","k","n","o","w","n">>} /\ b = <<"e","l","f">>

\* The supported arch/os/abi combinations.
Supported ==
    {c \in ArchNames \X KernelWords \X AbiWords : ValidOsAbi(c[2], c[3])}

\* The Triple came from its components, not from a parse.
Constructed == res = NoRes /\ t # NoTriple

Sh3UnknownElf == Triple(<<"Sh3", "Little">>, <<"u","n","k","n","o","w","n">>, <<"None", "Elf">>)

(***************************************************************************)
(* C1 .. C8: the parser and the canonical serializer.                      *)
(***************************************************************************)
\* C1: every Triple built from the enumerated variants (Sh3(Big) included, vendor
\* an identifier token) is displayed, and parsing the displayed string succeeds
\* and returns an equal Triple.
C1_RoundTrip ==
    /\ (pc = "shown" /\ Constructed) => shown.tag = "Ok"
    /\ (pc = "reparsed" /\ Constructed) => res2 = Ok(t)

\* Every string that Display does produce parses back to the Triple displayed.
RoundTripOfDisplayed == pc = "reparsed" => res2 = Ok(t)

\* C2: an input of identifier tokens separated by '-' whose token count is neither
\* 3 nor 4 makes Parse return an error value: no abort, no Triple.
C2_StructuralRejection ==
    (pc = "parsed" /\ WellFormed(s) /\ Len(Split(s)) \notin {3, 4}) => res = Err

\* C3: a 3-token or 4-token input with a recognized architecture whose kernel token
\* is none of linux, none, unknown, or whose abi token is not one of the resolved
\* kernel's, makes Parse return an error value rather than abort.
C3_OsAbiRejection ==
    (/\ pc = "parsed"
     /\ WellFormed(s)
     /\ Len(Split(s)) \in {3, 4}
     /\ Split(s)[1] \in ArchNames
     /\ ~ValidOsAbi(Split(s)[Len(Split(s)) - 1], Split(s)[Len(Split(s))]))
    => res = Err

\* C4, as claimed: "sh3-unknown-elf" parses to Triple{Sh3(Little), "unknown",
\* None(Elf)} and Display of that Triple yields "sh3-unknown-elf" again.
C4_Sh3Scenario ==
    s = <<"s","h","3","-","u","n","k","n","o","w","n","-","e","l","f">> =>
        /\ pc \in {"parsed", "shown"} => res = Ok(Sh3UnknownElf)
        /\ pc = "shown" => shown = Ok(<<"s","h","3","-","u","n","k","n","o","w","n","-","e","l","f">>)

\* C4, amended: "sh3-unknown-elf" parses to Triple{Sh3(Little), "unknown",
\* None(Elf)}; Display of that Triple yields "sh3-unknown-none-elf", with the
\* kernel written out, and that string parses back to the same Triple.
C4_Sh3ScenarioAmended ==
    s = <<"s","h","3","-","u","n","k","n","o","w","n","-","e","l","f">> =>
        /\ pc \in {"parsed", "shown", "reparsed"} => res = Ok(Sh3UnknownElf)
        /\ pc \in {"shown", "reparsed"} => shown = Ok(<<"s","h","3","-","u","n","k","n","o","w","n","-","n","o","n","e","-","e","l","f">>)
        /\ pc = "reparsed" => res2 = res

C4_Witness ==
    pc = "reparsed" /\ s = <<"s","h","3","-","u","n","k","n","o","w","n","-","e","l","f">> /\ res2.tag = "Ok"

\* C5: for every architecture identifier of the table, kernel in {linux, none,
\* unknown} and abi valid for it, the 3-token form and the 4-token form with vendor
\* "unknown" both parse, to equal Triples whose vendor is "unknown".
C5_DefaultVendor ==
    pc = "parsed" =>
        \A c \in Supported :
            LET three == Join(<<c[1], c[2], c[3]>>)
                four == Join(<<c[1], <<"u","n","k","n","o","w","n">>, c[2], c[3]>>)
            IN  /\ s = three =>
                    /\ res.tag = "Ok"
                    /\ res.val.vendor = <<"u","n","k","n","o","w","n">>
                    /\ from_str(four) = res
                /\ s = four =>
                    /\ res.tag = "Ok"
                    /\ res.val.vendor = <<"u","n","k","n","o","w","n">>
                    /\ from_str(three) = res

C5_Witness ==
    /\ pc = "parsed"
    /\ res.tag = "Ok"
    /\ \E c \in Supported : s = Join(<<c[1], c[2], c[3]>>) /\ c[2] = <<"u","n","k","n","o","w","n">>

\* C6: the Arch that Parse resolves is the table's for the first token, so the
\* aliases aarch64 and arm64 parse alike; and every first token that is not one
\* of the table's spellings makes Parse return an error value.
C6_ArchDispatch ==
    pc = "parsed" =>
        /\ res.tag = "Ok" =>
            /\ Split(s)[1] \in ArchNames
            /\ res.val.arch = TableArch(Split(s)[1])
        /\ s = <<"a","r","m","6","4","-","l","i","n","u","x","-","g","n","u">> => res = from_str(<<"a","a","r","c","h","6","4","-","l","i","n","u","x","-","g","n","u">>)
        /\ (IsIdent(Split(s)[1]) /\ Split(s)[1] \notin ArchNames) => res = Err

\* The dispatch where Triple::parse reaches it, in the 3-token and 4-token shapes:
\* the table's Arch, and an error value for every other first token, whatever the
\* kernel and abi tokens.
ArchDispatchWhenShaped ==
    (pc = "parsed" /\ WellFormed(s) /\ Len(Split(s)) \in {3, 4}) =>
        /\ res.tag = "Ok" => res.val.arch = TableArch(Split(s)[1])
        /\ Split(s)[1] \notin ArchNames => res = Err

\* C7: for every accepted input, Display of the parsed Triple is
\* "{arch}-{vendor}-{kernel}-{abi}" with the table's canonical arch spelling, never
\* the alias arm64; display(parse("arm64-linux-gnu")) = "aarch64-unknown-linux-gnu".
C7_CanonicalCollapse ==
    (pc = "shown" /\ res.tag = "Ok") =>
        /\ shown.tag = "Ok"
        /\ LET in == Split(s)
               out == Split(shown.val)
           IN  /\ Len(out) = 4
               /\ out[1] = (IF in[1] = <<"a","r","m","6","4">> THEN <<"a","a","r","c","h","6","4">> ELSE in[1])
               /\ out[1] \in ArchNames \ {<<"a","r","m","6","4">>}
               /\ out[2] = (IF Len(in) = 4 THEN in[2] ELSE <<"u","n","k","n","o","w","n">>)
               /\ out[3] = (IF in[Len(in) - 1] = <<"u","n","k","n","o","w","n">> THEN <<"n","o","n","e">>
                                                             ELSE in[Len(in) - 1])
               /\ out[4] = in[Len(in)]
        /\ s = <<"a","r","m","6","4","-","l","i","n","u","x","-","g","n","u">> => shown.val = <<"a","a","r","c","h","6","4","-","u","n","k","n","o","w","n","-","l","i","n","u","x","-","g","n","u">>

C7_Witness ==
    pc = "shown" /\ s = <<"a","r","m","6","4","-","l","i","n","u","x","-","g","n","u">> /\ shown.tag = "Ok"

\* C8: Parse succeeds only on a wholly consumed input; an input with characters
\* left after its longest prefix of '-'-separated identifier tokens yields an
\* error value, never a Triple and never an abort.
C8_CompleteConsumption ==
    (pc = "parsed" /\ ~WellFormed(s)) => res = Err

\* An input that is not wholly identifier tokens never yields a Triple.
NoTripleFromMalformed ==
    (pc = "parsed" /\ ~WellFormed(s)) => res.tag # "Ok"

(***************************************************************************)
(* C9, C10: the directive emitter.                                         *)
(***************************************************************************)
FamilyDirectives ==
    {<<"C","T","_","A","R","C","H","_","A","R","M","=","y">>, <<"C","T","_","A","R","C","H","_","M","I","P","S","=","y">>, <<"C","T","_","A","R","C","H","_","S","H","=","y">>, <<"C","T","_","A","R","C","H","_","M","6","8","K","=","y">>,
     <<"C","T","_","A","R","C","H","_","X","8","6","=","y">>}
EndianDirectives == {<<"C","T","_","A","R","C","H","_","L","E","=","y">>, <<"C","T","_","A","R","C","H","_","B","E","=","y">>}
BitDirectives == {<<"C","T","_","A","R","C","H","_","3","2","=","y">>, <<"C","T","_","A","R","C","H","_","6","4","=","y">>}
KernelDirectives == {<<"C","T","_","K","E","R","N","E","L","_","L","I","N","U","X","=","y">>, <<"C","T","_","K","E","R","N","E","L","_","B","A","R","E","_","M","E","T","A","L","=","y">>}
LibcDirectives == {<<"C","T","_","L","I","B","C","_","G","L","I","B","C","=","y">>, <<"C","T","_","L","I","B","C","_","M","U","S","L","=","y">>, <<"C","T","_","L","I","B","C","_","U","C","L","I","B","C","_","N","G">>}

\* The fixed order of the directives of Triple tr.
InOrder(o, tr) ==
    /\ Len(o) = (IF tr.os[1] = "Linux" THEN 6 ELSE 5)
    /\ o[1] \in FamilyDirectives
    /\ o[2] \in EndianDirectives
    /\ o[3] \in BitDirectives
    /\ o[4] = <<"C","T","_","T","A","R","G","E","T","_","V","E","N","D","O","R","=">> \o tr.vendor
    /\ o[5] \in KernelDirectives
    /\ Len(o) = 6 => o[6] \in LibcDirectives

\* The lines of a text, each ended by a newline.
RECURSIVE Lines(_)
Lines(txt) ==
    IF txt = <<>> THEN <<>>
    ELSE LET i == CHOOSE j \in 1..Len(txt) :
                      txt[j] = "\n" /\ \A k \in 1..(j - 1) : txt[k] # "\n"
         IN  <<SubSeq(txt, 1, i - 1)>> \o Lines(SubSeq(txt, i + 1, Len(txt)))

StartsWith(line, prefix) ==
    Len(line) >= Len(prefix) /\ SubSeq(line, 1, Len(prefix)) = prefix

\* A directive owned by the caller: tarballs dir, prefix dir, GCC source URL.
CallerOwned(line) ==
    \/ StartsWith(line, <<"C","T","_","L","O","C","A","L","_","T","A","R","B","A","L","L","S","_","D","I","R","=">>)
    \/ StartsWith(line, <<"C","T","_","P","R","E","F","I","X","_","D","I","R","=">>)
    \/ StartsWith(line, <<"C","T","_","G","C","C","_","D","E","V","E","L","_","U","R","L","=">>)

\* C9: emission appends architecture family, endianness, bit-width, vendor, kernel
\* and then the libc directive if any, 6 directives for Linux and 5 for None; in
\* the text of Toolchain::crosstool_config they precede every caller-owned one.
C9_DirectiveOrder ==
    /\ pc = "emitted" => InOrder(opts, t)
    /\ pc = "configured" =>
        LET ls == Lines(text)
            n == IF t.os[1] = "Linux" THEN 6 ELSE 5
        IN  /\ Len(ls) > n
            /\ InOrder(SubSeq(ls, 1, n), t)
            /\ Cardinality({i \in 1..Len(ls) : CallerOwned(ls[i])}) = 3
            /\ \A i \in 1..Len(ls) : CallerOwned(ls[i]) => i > n

C9_Witness ==
    pc = "configured" /\ t.os = <<"Linux", "Musl">> /\ t.arch = <<"Sh3", "Big">>

BigEndianArchs ==
    {<<"Arm64", "Big">>, <<"Mips32", "Big">>, <<"Mips64", "Big">>, <<"Sh3", "Big">>}
Wide64Archs ==
    {<<"Arm64", "Little">>, <<"Arm64", "Big">>, <<"Mips64", "Little">>,
     <<"Mips64", "Big">>, <<"X86", "X86_64">>, <<"X86", "X86_64h">>}

\* How many directives of o are in the set ds.
CountIn(o, ds) == Cardinality({i \in 1..Len(o) : o[i] \in ds})

\* C10: emission holds exactly one endianness directive and exactly one bit-width
\* directive, both decided by the Arch value: big-endian for Arm64(Big),
\* Mips32(Big), Mips64(Big), Sh3(Big) only; 64-bit for Arm64, Mips64, X86_64 and
\* X86_64h only.
C10_EndianBits ==
    pc = "emitted" =>
        /\ CountIn(opts, EndianDirectives) = 1
        /\ CountIn(opts, BitDirectives) = 1
        /\ CountIn(opts, {<<"C","T","_","A","R","C","H","_","B","E","=","y">>}) = (IF t.arch \in BigEndianArchs THEN 1 ELSE 0)
        /\ CountIn(opts, {<<"C","T","_","A","R","C","H","_","6","4","=","y">>}) = (IF t.arch \in Wide64Archs THEN 1 ELSE 0)

C10_Witness ==
    pc = "emitted" /\ t.arch = <<"X86", "X86_64h">> /\ Constructed

(***************************************************************************)
(* C11: the kernel and libc directives.                                    *)
(***************************************************************************)
EndsWith(line, suffix) ==
    /\ Len(line) >= Len(suffix)
    /\ SubSeq(line, Len(line) - Len(suffix) + 1, Len(line)) = suffix

\* The libc directive of each LinuxLibc.
LibcDirective(libc) ==
    CASE libc = "Gnu" -> <<"C","T","_","L","I","B","C","_","G","L","I","B","C","=","y">>
      [] libc = "Musl" -> <<"C","T","_","L","I","B","C","_","M","U","S","L","=","y">>
      [] libc = "Uclibc" -> <<"C","T","_","L","I","B","C","_","U","C","L","I","B","C","_","N","G">>

\* C11: for Linux(libc) emission appends the Linux kernel directive and then
\* exactly one libc directive, its own for each of Gnu, Musl, Uclibc, the first
\* two ending with "=y" and the Uclibc one (CT_LIBC_UCLIBC_NG) not; for None(Elf)
\* it appends the bare-metal kernel directive alone, and no abi directive.
C11_KernelLibc ==
    pc = "emitted" =>
        /\ CountIn(opts, KernelDirectives) = 1
        /\ t.os[1] = "Linux" =>
            /\ opts[Len(opts) - 1] = <<"C","T","_","K","E","R","N","E","L","_","L","I","N","U","X","=","y">>
            /\ opts[Len(opts)] = LibcDirective(t.os[2])
            /\ CountIn(opts, LibcDirectives) = 1
            /\ \A l \in LinuxLibc \ {t.os[2]} : opts[Len(opts)] # LibcDirective(l)
            /\ EndsWith(opts[Len(opts)], <<"=","y">>) <=> t.os[2] \in {"Gnu", "Musl"}
        /\ t.os[1] = "None" =>
            /\ opts[Len(opts)] = <<"C","T","_","K","E","R","N","E","L","_","B","A","R","E","_","M","E","T","A","L","=","y">>
            /\ opts[Len(opts) - 1] = <<"C","T","_","T","A","R","G","E","T","_","V","E","N","D","O","R","=">> \o t.vendor
            /\ CountIn(opts, LibcDirectives) = 0

C11_Witness ==
    pc = "emitted" /\ t.os = <<"Linux", "Uclibc">>

(***************************************************************************)
(* C12: the two shapes of the grammar and the OS/ABI resolver.             *)
(***************************************************************************)
\* The Os of a valid kernel/abi pair.
TableOs(k, b) ==
    CASE k = <<"l","i","n","u","x">> /\ b = <<"g","n","u">> -> <<"Linux", "Gnu">>
      [] k = <<"l","i","n","u","x">> /\ b = <<"m","u","s","l">> -> <<"Linux", "Musl">>
      [] k = <<"l","i","n","u","x">> /\ b = <<"u","c","l","i","b","c">> -> <<"Linux", "Uclibc">>
      [] k \in {<<"n","o","n","e">>, <<"u","n","k","n","o","w","n">>} /\ b = <<"e","l","f">> -> <<"None", "Elf">>

M68kBareMetal == Triple(<<"M68k">>, <<"u","n","k","n","o","w","n">>, <<"None", "Elf">>)

\* C12: an accepted 4-token input "a-v-k-b" has vendor v verbatim, also when v is
\* spelled like a kernel; an accepted 3-token input "a-k-b" has vendor "unknown"
\* and its second token read as the kernel; the Os is the resolver's for (k, b);
\* "m68k-unknown-elf", "m68k-none-elf", "m68k-unknown-none-elf" parse alike.
C12_GrammarShapes ==
    pc = "parsed" =>
        /\ res.tag = "Ok" =>
            LET in == Split(s)
            IN  /\ Len(in) \in {3, 4}
                /\ Len(in) = 4 =>
                    /\ res.val.vendor = in[2]
                    /\ ValidOsAbi(in[3], in[4])
                    /\ res.val.os = TableOs(in[3], in[4])
                /\ Len(in) = 3 =>
                    /\ res.val.vendor = <<"u","n","k","n","o","w","n">>
                    /\ ValidOsAbi(in[2], in[3])
                    /\ res.val.os = TableOs(in[2], in[3])
        /\ s \in {<<"m","6","8","k","-","u","n","k","n","o","w","n","-","e","l","f">>, <<"m","6","8","k","-","n","o","n","e","-","e","l","f">>, <<"m","6","8","k","-","u","n","k","n","o","w","n","-","n","o","n","e","-","e","l","f">>}
              => res = Ok(M68kBareMetal)

C12_Witness ==
    /\ pc = "parsed"
    /\ res.tag = "Ok"
    /\ Len(Split(s)) = 4
    /\ Split(s)[2] = <<"l","i","n","u","x">>
    /\ Split(s)[3] = <<"u","n","k","n","o","w","n">>

(***************************************************************************)
(* C13: the toolchain registry.                                            *)
(***************************************************************************)
\* C13: after any sequence of `toolchain <target> add` commands the list holds at
\* most one entry per Triple, and the entry find_toolchain returns right after an
\* Add is the entry that Add pushed, with the gcc_src it was given.
C13_Registry ==
    /\ \A i, j \in 1..Len(toolchain) :
           toolchain[i].triple = toolchain[j].triple => i = j
    /\ pushed # NoEntry => found = pushed /\ found.gcc_src = pushed.gcc_src

\* What the lookup after an Add does return: an entry of the pushed triple, and
\* the pushed entry itself when no earlier entry has that triple.
AddFindsFirstOfTriple ==
    pushed # NoEntry =>
        /\ found # NoEntry
        /\ found.triple = pushed.triple
        /\ pushed = toolchain[Len(toolchain)]
        /\ (\A i \in 1..(Len(toolchain) - 1) : toolchain[i].triple # pushed.triple)
               => found = pushed

====
